---- MODULE Spec2Model ----
(***************************************************************************)
(* Model of the Amazon AMI management post-processor                      *)
(* (plugin/post-processor.go): PostProcess lists the images tagged with   *)
(* the configured identifier, sorts them by creation date (newest first), *)
(* keeps the first KeepReleases of them and, for every other image,       *)
(* deregisters it and deletes the snapshots of its block device mappings. *)
(*                                                                         *)
(* The EC2 service is modelled by the catalog of images, the set of       *)
(* registered image ids and the set of existing snapshot ids; each of its *)
(* three calls may succeed or fail.  A state of the model is a point      *)
(* where PostProcess waits for the answer of a call, or has ended.        *)
(***************************************************************************)
EXTENDS Integers, Sequences, FiniteSets, TLC

\* ---------------------------------------------------------------- bounds
\* Most images the service holds for the configured identifier.
MaxImages == 3
\* Most block device mappings over all the images of the catalog.
MaxDevices == 2
\* The same, where PostProcess runs more than once.
MaxRunDevices == 1
\* Most images of the identifier where PostProcess runs more than once on
\* up to MaxDevices device mappings.
MaxSharedImages == 2

\* ------------------------------------------------------------ vocabulary
NIL == "nil"

\* Config.Identifier: the value of the tag the listing filters on.
Identifier == "app"
OtherIdentifier == "other"

\* Config.KeepReleases: an int, negative values included.
KeepReleases == -1 .. MaxImages

\* Image ids the service assigns, in catalog order, and the id of an image that
\* carries another identifier.
ImageIds == <<"ami-1", "ami-2", "ami-3", "ami-4", "ami-5">>
OtherImageId == "ami-other"

SnapshotIds == {"snap-1", "snap-2"}

\* Creation dates as the service reports them (strings), one of them not in
\* the layout "2006-01-02T15:04:05.000Z".
CreationDates ==
  {"not-a-date", "0000-01-01T00:00:00.000Z", "2020-01-01T00:00:00.000Z"}

\* ec2.BlockDeviceMapping: Ebs is nil for an ephemeral device; the SnapshotId
\* of an Ebs device is a *string, nil for a volume created empty.
Ephemeral == [Ebs |-> FALSE, SnapshotId |-> NIL]
EbsDevice(s) == [Ebs |-> TRUE, SnapshotId |-> s]
Devices == {Ephemeral, EbsDevice(NIL)} \cup {EbsDevice(s) : s \in SnapshotIds}

\* packer.Artifact handed to PostProcess.
Artifacts == {"artifact"}

\* ------------------------------------------------------- time.Parse, After
\* A parse error answered with a time later than every date.
ParseTime_ErrIsLatest(value) ==
  CASE value = "0000-01-01T00:00:00.000Z" -> [t |-> -366, err |-> FALSE]
    [] value = "2020-01-01T00:00:00.000Z" -> [t |-> 737424, err |-> FALSE]
    [] value = "2020-01-02T00:00:00.000Z" -> [t |-> 737425, err |-> FALSE]
    [] OTHER -> [t |-> 3652058, err |-> TRUE]

\* time.Parse(layout, value): the instant (in days since 0001-01-01T00:00Z,
\* the zero time.Time) and whether parsing failed; on failure the result is
\* the zero time.Time.
ParseTime(value) ==
  CASE value = "0000-01-01T00:00:00.000Z" -> [t |-> -366, err |-> FALSE]
    [] value = "2020-01-01T00:00:00.000Z" -> [t |-> 737424, err |-> FALSE]
    [] value = "2020-01-02T00:00:00.000Z" -> [t |-> 737425, err |-> FALSE]
    [] OTHER -> [t |-> 0, err |-> TRUE]

\* Time.After
After(t, u) == t > u

\* ------------------------------------------------------------------ sort
\* The comparison closure passed to sort: the errors of time.Parse are dropped.
lessFunc(s, i, j) ==
  After(ParseTime(s[i + 1].CreationDate).t, ParseTime(s[j + 1].CreationDate).t)

\* The swap closure passed to sort (indices from 0, as in the code).
swapFunc(s, i, j) ==
  [s EXCEPT ![i + 1] = s[j + 1], ![j + 1] = s[i + 1]]

\* The inner loop stopped one comparison early: m > n + 1.
RECURSIVE sortInner_StopsEarly(_, _, _)
sortInner_StopsEarly(s, n, m) ==
  IF m > n + 1
    THEN sortInner_StopsEarly(
           IF ~lessFunc(s, m - 1, m) THEN swapFunc(s, m - 1, m) ELSE s, n, m - 1)
    ELSE s

\* for m := len - 1; m > n; m-- { if !lessFunc(m-1, m) { swapFunc(m-1, m) } }
RECURSIVE sortInner(_, _, _)
sortInner(s, n, m) ==
  IF m > n
    THEN sortInner(IF ~lessFunc(s, m - 1, m) THEN swapFunc(s, m - 1, m) ELSE s,
                   n, m - 1)
    ELSE s

\* for n := 0; n < len-1; n++ { ... }
RECURSIVE sortOuter(_, _)
sortOuter(s, n) ==
  IF n < Len(s) - 1 THEN sortOuter(sortInner(s, n, Len(s) - 1), n + 1) ELSE s

sort(s) == sortOuter(s, 0)

\* ------------------------------------------------------------- the state
VARIABLES
  catalog,     \* EC2: every image ever created, as DescribeImages reports it
  registered,  \* EC2: ids of the images still registered
  snapshots,   \* EC2: ids of the snapshots that exist
  keep,        \* p.config.KeepReleases
  pc,          \* where PostProcess is: idle, a call awaiting its answer, ended
  artifact,    \* the artifact argument of the running PostProcess
  images,      \* output.Images
  i,           \* index of the image loop (from 0)
  d,           \* index of the block device loop (from 0)
  ret,         \* what PostProcess returned
  messages,    \* ui.Message calls of this run (the image id each one names)
  calls,       \* EC2 calls of this run, in order, each with its answer
  prev         \* how the previous run ended

vars == <<catalog, registered, snapshots, keep, pc, artifact, images, i, d,
          ret, messages, calls, prev>>

NoError == <<>>
NoReturn == [artifact |-> NIL, keep |-> FALSE, err |-> NoError]

\* ------------------------------------------------------------- catalogs
RECURSIVE SeqsUpTo(_, _)
SeqsUpTo(S, n) ==
  IF n = 0 THEN {<<>>}
  ELSE LET shorter == SeqsUpTo(S, n - 1)
       IN shorter \cup {Append(s, x) : s \in {t \in shorter : Len(t) = n - 1}, x \in S}

\* The block device mappings of n images, at most budget mappings in all.
RECURSIVE DeviceAssignments(_, _)
DeviceAssignments(n, budget) ==
  IF n = 0 THEN {<<>>}
  ELSE UNION {{Append(rest, l) : rest \in DeviceAssignments(n - 1, budget - Len(l))}
              : l \in SeqsUpTo(Devices, budget)}

Image(id, tag, date, devs) ==
  [ImageId |-> id, Tag |-> tag, CreationDate |-> date, BlockDeviceMappings |-> devs]

OtherImage == Image(OtherImageId, OtherIdentifier, "2020-01-01T00:00:00.000Z", <<>>)

SnapshotsOf(image) ==
  {image.BlockDeviceMappings[k].SnapshotId : k \in DOMAIN image.BlockDeviceMappings}
    \ {NIL}

\* ------------------------------------------------------------ EC2 calls
\* DescribeImages called without the tag filter.
DescribeImages_NoFilter(identifier) ==
  SelectSeq(catalog, LAMBDA im : im.ImageId \in registered)

\* DescribeImages answering with deregistered images too.
DescribeImages_ListsDeregistered(identifier) ==
  SelectSeq(catalog, LAMBDA im : im.Tag = identifier)

\* DescribeImages with the filter tag:Amazon_AMI_Management_Identifier.
DescribeImages(identifier) ==
  SelectSeq(catalog, LAMBDA im : im.ImageId \in registered /\ im.Tag = identifier)

Call(op, image, target, res) ==
  [op |-> op, image |-> image, target |-> target, res |-> res]

\* The answer of the call awaiting it.
Answered(cs, res) == [cs EXCEPT ![Len(cs)].res = res]

\* ---------------------------------------------------- PostProcess's loops
\* The image loop with the test i < KeepReleases - 1.
EnterImage_KeepsOneLess(imgs, i0, msgs, cs) ==
  LET j == IF i0 < keep - 1 THEN keep - 1 ELSE i0
  IN IF j >= Len(imgs)
       THEN [pc |-> "returned", i |-> Len(imgs), d |-> 0, messages |-> msgs,
             calls |-> cs,
             ret |-> [artifact |-> artifact, keep |-> TRUE, err |-> NoError]]
       ELSE [pc |-> "DeregisterImage", i |-> j, d |-> 0,
             messages |-> Append(msgs, imgs[j + 1].ImageId),
             calls |-> Append(cs, Call("DeregisterImage", imgs[j + 1].ImageId,
                                       imgs[j + 1].ImageId, "pending")),
             ret |-> NoReturn]

\* The image announced twice (ui.Message in place of log.Printf at line 115).
EnterImage_AnnouncesTwice(imgs, i0, msgs, cs) ==
  LET j == IF i0 < keep THEN keep ELSE i0
  IN IF j >= Len(imgs)
       THEN [pc |-> "returned", i |-> Len(imgs), d |-> 0, messages |-> msgs,
             calls |-> cs,
             ret |-> [artifact |-> artifact, keep |-> TRUE, err |-> NoError]]
       ELSE [pc |-> "DeregisterImage", i |-> j, d |-> 0,
             messages |-> msgs \o <<imgs[j + 1].ImageId, imgs[j + 1].ImageId>>,
             calls |-> Append(cs, Call("DeregisterImage", imgs[j + 1].ImageId,
                                       imgs[j + 1].ImageId, "pending")),
             ret |-> NoReturn]

\* The image not announced (ui.Message of line 114 left out).
EnterImage_Silent(imgs, i0, msgs, cs) ==
  LET j == IF i0 < keep THEN keep ELSE i0
  IN IF j >= Len(imgs)
       THEN [pc |-> "returned", i |-> Len(imgs), d |-> 0, messages |-> msgs,
             calls |-> cs,
             ret |-> [artifact |-> artifact, keep |-> TRUE, err |-> NoError]]
       ELSE [pc |-> "DeregisterImage", i |-> j, d |-> 0,
             messages |-> msgs,
             calls |-> Append(cs, Call("DeregisterImage", imgs[j + 1].ImageId,
                                       imgs[j + 1].ImageId, "pending")),
             ret |-> NoReturn]

\* Control reaches the head of the image loop at index i0: the first
\* KeepReleases images are passed over, the next one is announced and its
\* DeregisterImage call is issued; past the last image PostProcess returns.
EnterImage(imgs, i0, msgs, cs) ==
  LET j == IF i0 < keep THEN keep ELSE i0
  IN IF j >= Len(imgs)
       THEN [pc |-> "returned", i |-> Len(imgs), d |-> 0, messages |-> msgs,
             calls |-> cs,
             ret |-> [artifact |-> artifact, keep |-> TRUE, err |-> NoError]]
       ELSE [pc |-> "DeregisterImage", i |-> j, d |-> 0,
             messages |-> Append(msgs, imgs[j + 1].ImageId),
             calls |-> Append(cs, Call("DeregisterImage", imgs[j + 1].ImageId,
                                       imgs[j + 1].ImageId, "pending")),
             ret |-> NoReturn]

\* Control reaches the head of the device loop of image i at index d0: devices
\* without Ebs are passed over; the SnapshotId of the next one is dereferenced
\* (for the log line) and its DeleteSnapshot call is issued.
RECURSIVE EnterDevice(_, _, _, _, _)
EnterDevice(imgs, i0, d0, msgs, cs) ==
  LET devs == imgs[i0 + 1].BlockDeviceMappings
  IN IF d0 >= Len(devs) THEN EnterImage(imgs, i0 + 1, msgs, cs)
     ELSE IF ~devs[d0 + 1].Ebs THEN EnterDevice(imgs, i0, d0 + 1, msgs, cs)
     ELSE IF devs[d0 + 1].SnapshotId = NIL
       THEN [pc |-> "panicked", i |-> i0, d |-> d0, messages |-> msgs,
             calls |-> cs, ret |-> NoReturn]
       ELSE [pc |-> "DeleteSnapshot", i |-> i0, d |-> d0, messages |-> msgs,
             calls |-> Append(cs, Call("DeleteSnapshot", imgs[i0 + 1].ImageId,
                                       devs[d0 + 1].SnapshotId, "pending")),
             ret |-> NoReturn]

Goto(c) ==
  /\ pc' = c.pc
  /\ i' = c.i
  /\ d' = c.d
  /\ messages' = c.messages
  /\ calls' = c.calls
  /\ ret' = c.ret

\* return nil, false, err
Fail_DropsArtifact(op, target) ==
  /\ pc' = "returned"
  /\ ret' = [artifact |-> NIL, keep |-> FALSE, err |-> <<op, target>>]
  /\ calls' = [calls EXCEPT ![Len(calls)].res = "err"]
  /\ UNCHANGED <<i, d, messages>>

\* return nil, true, err
Fail(op, target) ==
  /\ pc' = "returned"
  /\ ret' = [artifact |-> NIL, keep |-> TRUE, err |-> <<op, target>>]
  /\ calls' = Answered(calls, "err")
  /\ UNCHANGED <<i, d, messages>>

\* ---------------------------------------------------------------- Init
\* The service holds up to MaxImages images of the configured identifier, with
\* up to budget device mappings in all, and one image of another identifier;
\* every image is registered and every snapshot exists.
Provisioned(budget) ==
  /\ \E n \in 0 .. MaxImages :
       \E dates \in [1 .. n -> CreationDates] :
         \E devs \in DeviceAssignments(n, budget) :
           catalog = [k \in 1 .. n |->
                        Image(ImageIds[k], Identifier, dates[k], devs[k])]
                     \o <<OtherImage>>
  /\ registered = {catalog[k].ImageId : k \in DOMAIN catalog}
  /\ snapshots = UNION {SnapshotsOf(catalog[k]) : k \in DOMAIN catalog}
  /\ keep \in KeepReleases
  /\ pc = "idle"
  /\ artifact = NIL
  /\ images = <<>>
  /\ i = 0
  /\ d = 0
  /\ ret = NoReturn
  /\ messages = <<>>
  /\ calls = <<>>
  /\ prev = "none"

Init == Provisioned(MaxDevices)

InitRuns == Provisioned(MaxRunDevices)

\* Repeated runs on fewer images, whose device mappings may share snapshots.
InitShared == Provisioned(MaxDevices) /\ Len(catalog) <= MaxSharedImages + 1

\* -------------------------------------------------------------- actions
\* PostProcess is called: it issues DescribeImages.
PostProcess ==
  /\ pc = "idle"
  /\ \E a \in Artifacts : artifact' = a
  /\ pc' = "DescribeImages"
  /\ calls' = <<Call("DescribeImages", NIL, Identifier, "pending")>>
  /\ UNCHANGED <<catalog, registered, snapshots, keep, images, i, d, ret,
                 messages, prev>>

\* The error of DescribeImages answered by one more call.
DescribeImagesFails_Retries ==
  /\ pc = "DescribeImages"
  /\ Len(calls) < 2
  /\ calls' = Append(Answered(calls, "err"),
                     Call("DescribeImages", NIL, Identifier, "pending"))
  /\ UNCHANGED <<catalog, registered, snapshots, keep, pc, artifact, images,
                 i, d, ret, messages, prev>>

\* DescribeImages answers with an error: return nil, true, err.
DescribeImagesFails ==
  /\ pc = "DescribeImages"
  /\ Fail("DescribeImages", Identifier)
  /\ UNCHANGED <<catalog, registered, snapshots, keep, artifact, images, prev>>

\* DescribeImages answers: the images are sorted and the image loop starts.
DescribeImagesReturns ==
  /\ pc = "DescribeImages"
  /\ images' = sort(DescribeImages(Identifier))
  /\ Goto(EnterImage(images', 0, messages, Answered(calls, "ok")))
  /\ UNCHANGED <<catalog, registered, snapshots, keep, artifact, prev>>

\* The error of DeregisterImage not tested: the device loop starts.
DeregisterImageFails_DeletesSnapshots ==
  /\ pc = "DeregisterImage"
  /\ Goto(EnterDevice(images, i, 0, messages, Answered(calls, "err")))
  /\ UNCHANGED <<catalog, registered, snapshots, keep, artifact, images, prev>>

\* The error of DeregisterImage answered by continue: the next image is tried.
DeregisterImageFails_Continues ==
  /\ pc = "DeregisterImage"
  /\ Goto(EnterImage(images, i + 1, messages, Answered(calls, "err")))
  /\ UNCHANGED <<catalog, registered, snapshots, keep, artifact, images, prev>>

\* The error of DeregisterImage answered by return artifact, true, nil.
DeregisterImageFails_ReturnsNil ==
  /\ pc = "DeregisterImage"
  /\ pc' = "returned"
  /\ ret' = [artifact |-> artifact, keep |-> TRUE, err |-> NoError]
  /\ calls' = Answered(calls, "err")
  /\ UNCHANGED <<catalog, registered, snapshots, keep, artifact, images, i, d,
                 messages, prev>>

\* DeregisterImage answers with an error: return nil, true, err.
DeregisterImageFails ==
  /\ pc = "DeregisterImage"
  /\ Fail("DeregisterImage", images[i + 1].ImageId)
  /\ UNCHANGED <<catalog, registered, snapshots, keep, artifact, images, prev>>

\* The device loop started at index 1.
DeregisterImageReturns_SkipsFirstDevice ==
  /\ pc = "DeregisterImage"
  /\ registered' = registered \ {images[i + 1].ImageId}
  /\ Goto(EnterDevice(images, i, 1, messages, Answered(calls, "ok")))
  /\ UNCHANGED <<catalog, snapshots, keep, artifact, images, prev>>

\* DeregisterImage answers: the image is gone, the device loop starts.
DeregisterImageReturns ==
  /\ pc = "DeregisterImage"
  /\ registered' = registered \ {images[i + 1].ImageId}
  /\ Goto(EnterDevice(images, i, 0, messages, Answered(calls, "ok")))
  /\ UNCHANGED <<catalog, snapshots, keep, artifact, images, prev>>

\* The error of DeleteSnapshot answered by continue: the next device is tried.
DeleteSnapshotFails_Continues ==
  /\ pc = "DeleteSnapshot"
  /\ Goto(EnterDevice(images, i, d + 1, messages, Answered(calls, "err")))
  /\ UNCHANGED <<catalog, registered, snapshots, keep, artifact, images, prev>>

\* DeleteSnapshot answers with an error: return nil, true, err.
DeleteSnapshotFails ==
  /\ pc = "DeleteSnapshot"
  /\ Fail("DeleteSnapshot", images[i + 1].BlockDeviceMappings[d + 1].SnapshotId)
  /\ UNCHANGED <<catalog, registered, snapshots, keep, artifact, images, prev>>

\* DeleteSnapshot answers: the snapshot is gone, the device loop goes on.
DeleteSnapshotReturns ==
  /\ pc = "DeleteSnapshot"
  /\ snapshots' = snapshots \ {images[i + 1].BlockDeviceMappings[d + 1].SnapshotId}
  /\ Goto(EnterDevice(images, i, d + 1, messages, Answered(calls, "ok")))
  /\ UNCHANGED <<catalog, registered, keep, artifact, images, prev>>

\* The run is over (returned, or crashed); the post-processor may run again
\* on what the service now holds.
NextRun ==
  /\ pc \in {"returned", "panicked"}
  /\ prev' = IF pc = "panicked" THEN "panic"
             ELSE IF ret.err = NoError THEN "ok" ELSE "err"
  /\ pc' = "idle"
  /\ artifact' = NIL
  /\ images' = <<>>
  /\ i' = 0
  /\ d' = 0
  /\ ret' = NoReturn
  /\ messages' = <<>>
  /\ calls' = <<>>
  /\ UNCHANGED <<catalog, registered, snapshots, keep>>

\* One run of PostProcess on what the service holds.
Next ==
  \/ PostProcess
  \/ DescribeImagesFails
  \/ DescribeImagesReturns
  \/ DeregisterImageFails
  \/ DeregisterImageReturns
  \/ DeleteSnapshotFails
  \/ DeleteSnapshotReturns

Spec == Init /\ [][Next]_vars

\* Runs of PostProcess one after the other, the service changed by nothing else.
NextRuns ==
  \/ PostProcess
  \/ DescribeImagesFails
  \/ DescribeImagesReturns
  \/ DeregisterImageFails
  \/ DeregisterImageReturns
  \/ DeleteSnapshotFails
  \/ DeleteSnapshotReturns
  \/ NextRun

SpecRuns == InitRuns /\ [][NextRuns]_vars

SpecShared == InitShared /\ [][NextRuns]_vars

\* =================================================================
\* Properties
\* =================================================================
Max(a, b) == IF a > b THEN a ELSE b
Min(a, b) == IF a < b THEN a ELSE b

\* The creation time the sort compares an image by.
CreatedAt(image) == ParseTime(image.CreationDate).t

\* A call of this run was answered with an error.
Failed == \E p \in DOMAIN calls : calls[p].res = "err"

\* The run is over: PostProcess returned, or crashed.
Ended == pc \in {"returned", "panicked"}

\* DescribeImages answered this run, so that images is this run's sorted listing.
Listed == calls # <<>> /\ calls[1].res = "ok"

\* Positions (from 0) of the listing, those kept and those to delete.
Positions == 0 .. Len(images) - 1
DeletionSet == {k \in Positions : k >= keep}
PositionOf(id) == CHOOSE k \in Positions : images[k + 1].ImageId = id
Listing == {images[k + 1].ImageId : k \in Positions}

Deregisters == {p \in DOMAIN calls : calls[p].op = "DeregisterImage"}
Deletes == {p \in DOMAIN calls : calls[p].op = "DeleteSnapshot"}

\* Positions (from 0) of the devices of an image that reference a snapshot.
SnapshotDevices(image) ==
  {e \in 0 .. Len(image.BlockDeviceMappings) - 1 :
     /\ image.BlockDeviceMappings[e + 1].Ebs
     /\ image.BlockDeviceMappings[e + 1].SnapshotId # NIL}

\* -----------------------------------------------------------------
\* C1: for every listing of n images and every keepCount k >= 0, a run in
\* which no provider call fails deregisters exactly max(0, n - k) images and
\* leaves min(n, k) registered, and no retained image was created strictly
\* earlier than a deregistered one.
C1_RetainsNewest ==
  (Ended /\ Listed /\ ~Failed /\ keep >= 0) =>
    LET gone == {k \in Positions : images[k + 1].ImageId \notin registered}
        kept == {k \in Positions : images[k + 1].ImageId \in registered}
    IN /\ Cardinality(gone) = Max(0, Len(images) - keep)
       /\ Cardinality(kept) = Min(Len(images), keep)
       /\ \A r \in kept : \A g \in gone :
            ~(CreatedAt(images[r + 1]) < CreatedAt(images[g + 1]))

\* -----------------------------------------------------------------
\* C2: in every state of every run, each issued DeregisterImage call targets
\* an image of this run's listing for the configured identifier, at a
\* position >= keepCount of the sorted listing; the images at the positions
\* below keepCount are never deregistered.
C2_OnlyDeletionSet ==
  /\ \A p \in Deregisters :
       /\ Listed
       /\ calls[p].target \in Listing
       /\ \E k \in DOMAIN catalog :
            /\ catalog[k].ImageId = calls[p].target
            /\ catalog[k].Tag = Identifier
       /\ PositionOf(calls[p].target) >= keep
  /\ Listed =>
       \A k \in Positions : k < keep => images[k + 1].ImageId \in registered

C2_Witness ==
  /\ keep >= 1
  /\ Len(images) > keep
  /\ \E p \in Deregisters : calls[p].res = "ok"
  /\ OtherImageId \in registered

\* -----------------------------------------------------------------
\* C3: a DeleteSnapshot call for a snapshot of an image is issued only after
\* the DeregisterImage call of that image was answered with success in this
\* run; when the DeregisterImage call of an image fails, no DeleteSnapshot
\* call is issued for that image.
C3_SnapshotsAfterDeregister ==
  /\ \A p \in Deletes :
       \E q \in Deregisters :
         /\ q < p
         /\ calls[q].image = calls[p].image
         /\ calls[q].res = "ok"
  /\ \A q \in Deregisters :
       calls[q].res = "err" =>
         \A p \in Deletes : calls[p].image # calls[q].image

C3_Witness ==
  /\ \E p \in Deletes : calls[p].res = "ok"
  /\ \E q \in Deregisters :
       /\ calls[q].res = "err"
       /\ SnapshotDevices(images[PositionOf(calls[q].image) + 1]) # {}

\* -----------------------------------------------------------------
\* C4: when the DeregisterImage call of an image of the deletion set fails,
\* the run stops and returns that call's error; the images before it in the
\* deletion set are deregistered and all their snapshots deleted, and no call
\* is issued for an image after it.
DeregisterFailed ==
  /\ calls # <<>>
  /\ calls[Len(calls)].op = "DeregisterImage"
  /\ calls[Len(calls)].res = "err"

C4_AbortOnDeregisterFailure ==
  /\ (\E q \in Deregisters : calls[q].res = "err") => (pc = "returned" /\ DeregisterFailed)
  /\ DeregisterFailed =>
       LET j == PositionOf(calls[Len(calls)].target)
       IN /\ pc = "returned"
          /\ i = j
          /\ ret.err = <<"DeregisterImage", images[j + 1].ImageId>>
          /\ \A k \in DeletionSet :
               k < j =>
                 /\ images[k + 1].ImageId \notin registered
                 /\ \A e \in SnapshotDevices(images[k + 1]) :
                      /\ images[k + 1].BlockDeviceMappings[e + 1].SnapshotId
                           \notin snapshots
                      /\ \E p \in Deletes :
                           /\ calls[p].image = images[k + 1].ImageId
                           /\ calls[p].target =
                                images[k + 1].BlockDeviceMappings[e + 1].SnapshotId
                           /\ calls[p].res = "ok"
          /\ \A k \in DeletionSet :
               k >= j => images[k + 1].ImageId \in registered
          /\ \A k \in DeletionSet :
               k > j =>
                 \A p \in DOMAIN calls : calls[p].image # images[k + 1].ImageId

\* The second image of a deletion set of three fails, the first one had a
\* snapshot.
C4_Witness ==
  /\ DeregisterFailed
  /\ Cardinality(DeletionSet) = 3
  /\ i = Max(keep, 0) + 1
  /\ SnapshotDevices(images[i]) # {}

\* -----------------------------------------------------------------
\* C5: when a DeleteSnapshot call fails, the run stops and returns that
\* call's error; the owning image stays deregistered, the failing snapshot and
\* the snapshots after it in the image's device mapping are left undeleted,
\* and no call is issued for a later image of the deletion set.
SnapshotFailed ==
  /\ calls # <<>>
  /\ calls[Len(calls)].op = "DeleteSnapshot"
  /\ calls[Len(calls)].res = "err"

\* What the run does once DeleteSnapshot has failed for device d of image i.
StopsAtSnapshotFailure ==
  /\ pc = "returned"
  /\ i \in Positions
  /\ d \in SnapshotDevices(images[i + 1])
  /\ calls[Len(calls)].image = images[i + 1].ImageId
  /\ ret.err =
       <<"DeleteSnapshot", images[i + 1].BlockDeviceMappings[d + 1].SnapshotId>>
  /\ ret.err[2] = calls[Len(calls)].target
  /\ images[i + 1].ImageId \notin registered
  /\ \A k \in DeletionSet :
       k > i =>
         /\ images[k + 1].ImageId \in registered
         /\ \A p \in DOMAIN calls : calls[p].image # images[k + 1].ImageId

ListingFailed == calls # <<>> /\ calls[1].res = "err"

C6_ListingFailure ==
  /\ Cardinality({p \in DOMAIN calls : calls[p].op = "DescribeImages"}) <= 1
  /\ ListingFailed =>
       /\ pc = "returned"
       /\ ret.err = <<"DescribeImages", Identifier>>
       /\ Len(calls) = 1
       /\ Deregisters = {}
       /\ Deletes = {}

C6_Witness ==
  /\ ListingFailed
  /\ \E k \in DOMAIN catalog :
       /\ catalog[k].Tag = Identifier
       /\ catalog[k].ImageId \in registered
  /\ keep <= 0

\* -----------------------------------------------------------------
\* C7: when keepCount >= the number of listed images (an empty listing
\* included), the run issues no DeregisterImage and no DeleteSnapshot call
\* and returns a nil error.
C7_NothingToDelete ==
  (Listed /\ keep >= Len(images)) =>
    /\ pc = "returned"
    /\ ret.err = NoError
    /\ Deregisters = {}
    /\ Deletes = {}
    /\ Listing \subseteq registered

C7_Witness ==
  /\ Listed
  /\ Len(images) >= 2
  /\ keep = Len(images)
  /\ pc = "returned"

\* -----------------------------------------------------------------
\* C8: a run that follows another run with the same identifier and keepCount,
\* the service changed by the first run only, issues no DeregisterImage and
\* no DeleteSnapshot call.

\* C8 as stated: whatever the outcome of the first run.
C8_SecondRunDeletesNothing ==
  prev # "none" => (Deregisters = {} /\ Deletes = {})

\* C8 as amended: a run that follows a run which returned a nil error issues
\* no DeregisterImage and no DeleteSnapshot call.
C8_Idempotent ==
  prev = "ok" => (Deregisters = {} /\ Deletes = {} /\ ~(pc = "panicked"))

\* The first run deleted an image, the second one has listed and returned.
C8_Witness ==
  /\ prev = "ok"
  /\ pc = "returned"
  /\ ret.err = NoError
  /\ \E k \in DOMAIN catalog :
       catalog[k].Tag = Identifier /\ catalog[k].ImageId \notin registered
  /\ Len(images) >= 1

\* -----------------------------------------------------------------
\* C9: for an image of the deletion set, a device mapping without a snapshot
\* reference produces no DeleteSnapshot call and does not make the run fail;
\* the other devices of the image and the later images of the deletion set
\* are still processed.
C9_NoSnapshotSkipped ==
  /\ \A p \in Deletes : calls[p].target # NIL
  /\ pc # "panicked"
  /\ (Ended /\ Listed /\ ~Failed) =>
       /\ ret.err = NoError
       /\ \A k \in DeletionSet :
            /\ images[k + 1].ImageId \notin registered
            /\ \A e \in SnapshotDevices(images[k + 1]) :
                 \E p \in Deletes :
                   /\ calls[p].image = images[k + 1].ImageId
                   /\ calls[p].target =
                        images[k + 1].BlockDeviceMappings[e + 1].SnapshotId
                   /\ calls[p].res = "ok"

\* -----------------------------------------------------------------
\* C10: PostProcess returns a keep flag that is true whatever the outcome,
\* and a nil error exactly when no provider call failed.

\* C10 as stated: the input artifact is returned whatever the outcome.
C10_ArtifactAlwaysReturned ==
  pc = "returned" =>
    /\ ret.artifact = artifact
    /\ ret.keep
    /\ (ret.err = NoError <=> ~Failed)

\* C10 as amended: a run that returns gives a keep flag that is true; the
\* input artifact and a nil error when no provider call failed, a nil artifact
\* and the error of the failed call otherwise.
C10_Returns ==
  pc = "returned" =>
    /\ artifact \in Artifacts
    /\ ret.keep
    /\ (ret.err = NoError <=> ~Failed)
    /\ ~Failed => ret.artifact = artifact
    /\ Failed =>
         /\ ret.artifact = NIL
         /\ ret.err = <<calls[Len(calls)].op, calls[Len(calls)].target>>

\* A run that returns a nil artifact after it deregistered an image.
C10_Witness ==
  /\ pc = "returned"
  /\ ret.artifact = NIL
  /\ ret.err # NoError
  /\ \E p \in Deregisters : calls[p].res = "ok"

\* This run's listing as DescribeImages answered it, before the sort: the
\* images of the identifier that were registered then.
ListedInput ==
  LET gone == {calls[p].target :
                 p \in {q \in DOMAIN calls : /\ calls[q].op = "DeregisterImage"
                                             /\ calls[q].res = "ok"}}
  IN SelectSeq(catalog,
               LAMBDA im : /\ im.Tag = Identifier
                           /\ im.ImageId \in registered \cup gone)

\* -----------------------------------------------------------------
\* C11: a negative keepCount behaves like keepCount = 0: every listed image
\* is in the deletion set and, when no provider call fails, every listed
\* image is deregistered and its snapshots deleted.
C11_NegativeKeepDeletesAll ==
  (keep < 0 /\ Listed) =>
    /\ DeletionSet = Positions
    /\ Deregisters # {} => calls[2].target = images[1].ImageId
    /\ (Ended /\ ~Failed) =>
         \A k \in Positions :
           /\ images[k + 1].ImageId \notin registered
           /\ \A e \in SnapshotDevices(images[k + 1]) :
                images[k + 1].BlockDeviceMappings[e + 1].SnapshotId
                  \notin snapshots

\* -----------------------------------------------------------------
\* C12: for every listing, equal creation dates included, the sort ends with
\* a permutation of the listing (no image lost or duplicated) in
\* non-increasing order of creation time.
C12_SortedPermutation ==
  Listed =>
    /\ LET input == ListedInput
       IN /\ Len(images) = Len(input)
          /\ \A k \in DOMAIN input :
               Cardinality({m \in DOMAIN images : images[m] = input[k]}) = 1
    /\ \A m \in 1 .. Len(images) - 1 :
         CreatedAt(images[m]) >= CreatedAt(images[m + 1])

\* Three images listed oldest first, two of them of the same creation time.
C12_Witness ==
  /\ Listed
  /\ Len(ListedInput) = 3
  /\ CreatedAt(ListedInput[1]) < CreatedAt(ListedInput[2])
  /\ CreatedAt(ListedInput[2]) = CreatedAt(ListedInput[3])

\* -----------------------------------------------------------------
\* C13: the images of the deletion set are processed one at a time in the
\* sorted order, from position keepCount upward; the DeregisterImage call of
\* an image is issued only after every call for the images before it was
\* answered with success, and the snapshots of an image are deleted in the
\* order of its device mappings.
SnapshotCalls(image) ==
  LET devs == SelectSeq(image.BlockDeviceMappings,
                        LAMBDA dev : dev.Ebs /\ dev.SnapshotId # NIL)
  IN [e \in 1 .. Len(devs) |->
        [op |-> "DeleteSnapshot", image |-> image.ImageId,
         target |-> devs[e].SnapshotId]]

\* The calls of a run no call of which fails, from position k on.
RECURSIVE PlanFrom(_)
PlanFrom(k) ==
  IF k >= Len(images) THEN <<>>
  ELSE <<[op |-> "DeregisterImage", image |-> images[k + 1].ImageId,
          target |-> images[k + 1].ImageId]>>
       \o SnapshotCalls(images[k + 1]) \o PlanFrom(k + 1)

C13_InOrder ==
  /\ ~Listed => Len(calls) <= 1
  /\ Listed =>
       LET plan == PlanFrom(Max(keep, 0))
           issued == Tail(calls)
       IN /\ Len(issued) <= Len(plan)
          /\ \A p \in DOMAIN issued :
               /\ issued[p].op = plan[p].op
               /\ issued[p].image = plan[p].image
               /\ issued[p].target = plan[p].target
               /\ p < Len(issued) => issued[p].res = "ok"

\* Two snapshots of one image deleted, then the next image deregistered.
C13_Witness ==
  /\ Len(calls) >= 5
  /\ calls[3].op = "DeleteSnapshot"
  /\ calls[4].op = "DeleteSnapshot"
  /\ calls[3].target # calls[4].target
  /\ calls[5].op = "DeregisterImage"
  /\ keep >= 1

\* -----------------------------------------------------------------
\* C14: an image whose creation date cannot be parsed does not make the run
\* fail or crash; it sorts after the images with a valid date and enters the
\* deletion set before they do, and the valid images are ordered as if the
\* unparsable ones were absent.

\* The zero time.Time, in days since 0001-01-01T00:00Z.
ZeroTime == 0

ValidDate(image) == ~ParseTime(image.CreationDate).err

ValidOrderKept ==
  SelectSeq(images, ValidDate) = sort(SelectSeq(ListedInput, ValidDate))

\* C14 as stated: the unparsable date is the earliest possible time, after
\* every valid date.
C14_MalformedLast ==
  Listed =>
    /\ \A a, b \in DOMAIN images :
         (ValidDate(images[a]) /\ ~ValidDate(images[b])) => a < b
    /\ ValidOrderKept

\* C14 as amended: the unparsable date counts as the zero time
\* 0001-01-01T00:00:00Z; the image sorts after every image whose valid date is
\* later than the zero time and is in the deletion set when such an image is;
\* the valid images are ordered as if the unparsable ones were absent when
\* all their dates are later than the zero time, or pairwise distinct; the
\* run returns an error only when a provider call failed, and crashes only
\* at an Ebs device without a SnapshotId.
C14_MalformedAsZeroTime ==
  /\ Listed =>
       LET bad == {b \in DOMAIN images : ~ValidDate(images[b])}
           valid == DOMAIN images \ bad
           late == {a \in valid : CreatedAt(images[a]) > ZeroTime}
       IN /\ \A a \in late :
               \A b \in bad :
                 /\ a < b
                 /\ (a - 1) \in DeletionSet => (b - 1) \in DeletionSet
          /\ (\/ late = valid
              \/ \A a, b \in valid :
                   a # b => CreatedAt(images[a]) # CreatedAt(images[b]))
               => ValidOrderKept
  /\ (pc = "returned" /\ ~Failed) => ret.err = NoError
  /\ pc = "panicked" =>
       /\ images[i + 1].BlockDeviceMappings[d + 1].Ebs
       /\ images[i + 1].BlockDeviceMappings[d + 1].SnapshotId = NIL

\* An unparsable date listed first, before two images of a later valid date;
\* the run returned.
C14_Witness ==
  /\ Listed
  /\ pc = "returned"
  /\ Len(ListedInput) = 3
  /\ ~ValidDate(ListedInput[1])
  /\ ValidDate(ListedInput[2]) /\ CreatedAt(ListedInput[2]) > ZeroTime
  /\ ValidDate(ListedInput[3]) /\ CreatedAt(ListedInput[3]) > ZeroTime
  /\ keep = 2

\* -----------------------------------------------------------------
\* C15: for every image the run deregisters exactly one progress message
\* names it, emitted before any DeleteSnapshot call for that image; on a run
\* that returns a nil error the messages name exactly the deregistered
\* images, in the order of their deregistration.
DeregisteredInOrder ==
  LET done == SelectSeq(calls,
                        LAMBDA c : c.op = "DeregisterImage" /\ c.res = "ok")
  IN [k \in 1 .. Len(done) |-> done[k].target]

AnnouncedOnce ==
  /\ \A p \in Deregisters :
       calls[p].res = "ok" =>
         Cardinality({k \in DOMAIN messages : messages[k] = calls[p].target}) = 1
  /\ \A p \in Deletes :
       \E k \in DOMAIN messages : messages[k] = calls[p].image
  /\ (pc = "returned" /\ ret.err = NoError) => messages = DeregisteredInOrder

\* A step that issues a DeleteSnapshot call finds the message of its image
\* already emitted.
AnnouncedBefore ==
  \A p \in DOMAIN calls' :
    (p > Len(calls) /\ calls'[p].op = "DeleteSnapshot") =>
      \E k \in DOMAIN messages : messages[k] = calls'[p].image

C15_Announced == []AnnouncedOnce /\ [][AnnouncedBefore]_vars

\* A run that returned a nil error after two images, one with a snapshot.
C15_Witness ==
  /\ pc = "returned"
  /\ ret.err = NoError
  /\ Len(messages) = 2
  /\ Deletes # {}

\* -----------------------------------------------------------------
\* C16: every run ends in Done or Failed after exactly one DescribeImages
\* call, at most one DeregisterImage call per listed image and at most one
\* DeleteSnapshot call per device mapping of a deregistered image; no call is
\* retried, and the run ends Failed exactly when a provider call returned an
\* error.
CallsOf(op, id) ==
  {p \in DOMAIN calls : calls[p].op = op /\ calls[p].image = id}

C16_TerminatesDoneOrFailed ==
  /\ Ended => pc = "returned"
  /\ pc # "idle" =>
       Cardinality({p \in DOMAIN calls : calls[p].op = "DescribeImages"}) = 1
  /\ \A p \in Deregisters : calls[p].target \in Listing
  /\ \A k \in Positions :
       /\ Cardinality(CallsOf("DeregisterImage", images[k + 1].ImageId)) <= 1
       /\ Cardinality(CallsOf("DeleteSnapshot", images[k + 1].ImageId))
            <= Cardinality(SnapshotDevices(images[k + 1]))
       /\ CallsOf("DeleteSnapshot", images[k + 1].ImageId) # {} =>
            images[k + 1].ImageId \notin registered
  /\ pc = "returned" => (ret.err # NoError <=> Failed)

\* -----------------------------------------------------------------
\* C17: with pairwise distinct creation timestamps in the identifier group
\* and keepCount k >= 0, across repeated runs with whatever failures the k
\* newest images of the original group stay registered, and a run in which
\* no provider call fails leaves exactly those k images of the group
\* registered.
Group == {a \in DOMAIN catalog : catalog[a].Tag = Identifier}

DistinctTimestamps ==
  \A a, b \in Group :
    a # b => CreatedAt(catalog[a]) # CreatedAt(catalog[b])

Newest(k) ==
  {catalog[a].ImageId : a \in
     {a \in Group :
        Cardinality({b \in Group :
                       CreatedAt(catalog[b]) > CreatedAt(catalog[a])}) < k}}

C17_Converges ==
  (DistinctTimestamps /\ keep >= 0) =>
    /\ Newest(keep) \subseteq registered
    /\ (Ended /\ Listed /\ ~Failed) =>
         registered \cap {catalog[a].ImageId : a \in Group} = Newest(keep)

\* -----------------------------------------------------------------
\* C18: an image deregistered by an earlier run appears in no later listing,
\* so a later run issues no DeleteSnapshot call for a snapshot such an image
\* references, unless an image of that run's deletion set references the
\* snapshot too: the snapshots an earlier run left undeleted stay.
DeregisteredThisRun(id) ==
  \E p \in Deregisters : calls[p].target = id /\ calls[p].res = "ok"

\* Images of the group that a run before this one deregistered.
DeregisteredBefore ==
  {a \in Group : /\ catalog[a].ImageId \notin registered
                 /\ ~DeregisteredThisRun(catalog[a].ImageId)}

C18_OrphansStay ==
  /\ Listed =>
       \A id \in Listing : id \in registered \/ DeregisteredThisRun(id)
  /\ \A a \in DeregisteredBefore :
       \A s \in SnapshotsOf(catalog[a]) :
         (\A k \in DeletionSet : s \notin SnapshotsOf(images[k + 1])) =>
           \A p \in Deletes : calls[p].target # s

\* A later run has deregistered an image and deleted its snapshot, while the
\* snapshot of an image whose DeleteSnapshot call failed in an earlier run
\* is still there.
C18_Witness ==
  /\ pc = "returned"
  /\ ret.err = NoError
  /\ Deletes # {}
  /\ \E a \in DeregisteredBefore :
       /\ Len(catalog[a].BlockDeviceMappings) =
            Cardinality(SnapshotDevices(catalog[a]))
       /\ \E s \in SnapshotsOf(catalog[a]) :
            /\ s \in snapshots
            /\ \A p \in Deletes : calls[p].target # s

\* -----------------------------------------------------------------
\* C19: the progress message naming an image is emitted before the
\* DeregisterImage call for it is issued, so in every state there are as many
\* messages as DeregisterImage calls attempted, the k-th message naming the
\* image of the k-th call; when the run fails at a DeregisterImage call the
\* last message names an image that is still registered.
DeregisterTargets ==
  LET tried == SelectSeq(calls, LAMBDA c : c.op = "DeregisterImage")
  IN [k \in 1 .. Len(tried) |-> tried[k].target]

C19_MessagePerDeregister ==
  /\ Len(messages) = Cardinality(Deregisters)
  /\ messages = DeregisterTargets
  /\ DeregisterFailed =>
       /\ messages # <<>>
       /\ messages[Len(messages)] = calls[Len(calls)].target
       /\ messages[Len(messages)] \in registered

\* The second DeregisterImage call of a run failed.
C19_Witness ==
  /\ DeregisterFailed
  /\ pc = "returned"
  /\ Len(messages) = 2

\* -----------------------------------------------------------------
\* C20: no DeleteSnapshot call is issued for a snapshot that a retained
\* image (at a position below KeepReleases of the sorted listing)
\* references, also where two images reference the same snapshot.
Retained == {k \in Positions : k < keep}

C20_RetainedSnapshotsKept ==
  Listed =>
    \A p \in Deletes :
      \A k \in Retained : calls[p].target \notin SnapshotsOf(images[k + 1])

====
